---- MODULE Spec2Model ----
(***************************************************************************)
(* Appointments-Management-API (src/index.js): an Express application over *)
(* a MySQL pool.  The model holds the two tables, the AUTO_INCREMENT       *)
(* counters, the pool's connections and queue and, per request in flight,  *)
(* the handler's position (the await it is suspended at), its inputs, its  *)
(* locals and its response.                                                *)
(*                                                                         *)
(* JavaScript values are records [t, n, s, d]: t is the type tag, n the    *)
(* number, s the characters of a string (of the one element of an array),  *)
(* d the calendar date of a Date object.  Strings are sequences of         *)
(* one-character strings, so that the regular expressions, trim and        *)
(* parseInt are computed character by character.  MySQL DATE values are    *)
(* <<year, month, day>>, TIME values are <<hour, minute, second>>,         *)
(* TIMESTAMP values are the seconds of the server's clock.                 *)
(***************************************************************************)
EXTENDS Integers, Sequences, FiniteSets, TLC

\* ------------------------------------------------------------------ bounds
\* The appointments table hands out no id above MaxAppointmentId
\* (MaxInputsAppointmentId under the wide inputs of SpecInputs).  The patients
\* table holds the seeded patient and hands out one id more.
MaxAppointmentId == 2
MaxInputsAppointmentId == 1
SeedPatientId == 1
LastPatientId == SeedPatientId + 1
\* The requests in flight at once where the pool is modelled: one more than
\* the pool has connections.
NumClients == 6

\* mysql.createPool({waitForConnections: true, connectionLimit: 5, queueLimit: 0})
waitForConnections == TRUE
connectionLimit == 5
queueLimit == 0

\* ------------------------------------------------------- JavaScript values
Undefined == [t |-> "undefined", n |-> 0, s |-> <<>>, d |-> <<>>]
NaN == [t |-> "NaN", n |-> 0, s |-> <<>>, d |-> <<>>]
Num(i) == [t |-> "number", n |-> i, s |-> <<>>, d |-> <<>>]
Str(chars) == [t |-> "string", n |-> 0, s |-> chars, d |-> <<>>]
DateObj(date) == [t |-> "Date", n |-> 0, s |-> <<>>, d |-> date]
\* What express.json() parses null, ["chars"], {} and {"toString": 1} to.
Null == [t |-> "null", n |-> 0, s |-> <<>>, d |-> <<>>]
Arr(chars) == [t |-> "array", n |-> 0, s |-> chars, d |-> <<>>]
Obj == [t |-> "object", n |-> 0, s |-> <<>>, d |-> <<>>]
ObjOwnToString == [t |-> "object", n |-> 1, s |-> <<>>, d |-> <<>>]

Digits == <<"0", "1", "2", "3", "4", "5", "6", "7", "8", "9">>
IsDigit(c) == \E i \in DOMAIN Digits : Digits[i] = c
DigitVal(c) == (CHOOSE i \in DOMAIN Digits : Digits[i] = c) - 1
DigitChar(i) == Digits[i + 1]

RECURSIVE NatToChars(_)
NatToChars(i) == IF i < 10 THEN <<DigitChar(i)>>
                 ELSE Append(NatToChars(i \div 10), DigitChar(i % 10))

RECURSIVE CharsToNat(_)
CharsToNat(chars) ==
    IF chars = <<>> THEN 0
    ELSE 10 * CharsToNat(SubSeq(chars, 1, Len(chars) - 1)) + DigitVal(chars[Len(chars)])

\* typeof v
TypeOf(v) == IF v.t = "NaN" THEN "number"
             ELSE IF v.t \in {"Date", "null", "array", "object"} THEN "object"
             ELSE v.t

\* ToBoolean(v), as `!v`, `a && b` and `a || b` apply it
Truthy(v) == CASE v.t = "undefined" -> FALSE
               [] v.t = "NaN" -> FALSE
               [] v.t = "number" -> v.n # 0
               [] v.t = "string" -> v.s # <<>>
               [] v.t = "null" -> FALSE
               [] OTHER -> TRUE

\* ToString(v) throws a TypeError: an object whose own toString is not
\* callable, and whose valueOf returns the object itself.
ToStringThrows(v) == v.t = "object" /\ v.n = 1

\* ToString(v), as RegExp.prototype.test applies it to its argument
JsToString(v) == CASE v.t = "undefined" -> <<"u", "n", "d", "e", "f", "i", "n", "e", "d">>
                 [] v.t = "NaN" -> <<"N", "a", "N">>
                 [] v.t = "number" -> IF v.n < 0 THEN <<"-">> \o NatToChars(-v.n)
                                      ELSE NatToChars(v.n)
                 [] v.t = "string" -> v.s
                 [] v.t = "null" -> <<"n", "u", "l", "l">>
                 [] v.t = "array" -> v.s   \* the join of its one element
                 [] v.t = "object" -> <<"[", "o", "b", "j", "e", "c", "t", " ",
                                        "O", "b", "j", "e", "c", "t", "]">>
                 [] OTHER -> <<"D", "a", "t", "e">>

\* a === b
StrictEquals(a, b) ==
    CASE a.t # b.t -> FALSE
      [] a.t = "NaN" -> FALSE
      [] a.t = "number" -> a.n = b.n
      [] a.t = "string" -> a.s = b.s
      [] a.t = "Date" -> a.d = b.d   \* one Date object per fetched row: same reference
      [] a.t \in {"array", "object"} -> FALSE   \* two parsed bodies: two references
      [] OTHER -> TRUE

\* Number.isInteger(v)
NumberIsInteger(v) == v.t = "number"

IsSpace(c) == c = " "

RECURSIVE TrimStart(_)
TrimStart(chars) == IF chars # <<>> /\ IsSpace(Head(chars)) THEN TrimStart(Tail(chars))
                    ELSE chars

RECURSIVE TrimEnd(_)
TrimEnd(chars) == IF chars # <<>> /\ IsSpace(chars[Len(chars)])
                  THEN TrimEnd(SubSeq(chars, 1, Len(chars) - 1))
                  ELSE chars

\* String.prototype.trim
Trim(chars) == TrimEnd(TrimStart(chars))

RECURSIVE LeadingDigits(_)
LeadingDigits(chars) == IF chars # <<>> /\ IsDigit(Head(chars))
                        THEN <<Head(chars)>> \o LeadingDigits(Tail(chars))
                        ELSE <<>>

\* parseInt(chars, 10)
parseInt(chars) ==
    LET t == TrimStart(chars)
        neg == t # <<>> /\ Head(t) = "-"
        body == IF t # <<>> /\ Head(t) \in {"-", "+"} THEN Tail(t) ELSE t
        ds == LeadingDigits(body)
    IN IF ds = <<>> THEN NaN
       ELSE Num(IF neg THEN -CharsToNat(ds) ELSE CharsToNat(ds))

\* isNaN(v) of a number
isNaN(v) == v.t = "NaN"
\* ------------------------------------------------------------- validators
\* Mutant: the pattern checks the length and the digits' places, not the order
\* of the groups: /^[\d-]{10}$/.
isValidDate_anyGrouping(v) ==
    LET c == JsToString(v)
    IN Len(c) = 10 /\ \A i \in 1..10 : IsDigit(c[i]) \/ c[i] = "-"

\* /^\d{4}-\d{2}-\d{2}$/.test(s)
isValidDate(v) ==
    LET c == JsToString(v)
    IN /\ Len(c) = 10
       /\ \A i \in {1, 2, 3, 4, 6, 7, 9, 10} : IsDigit(c[i])
       /\ c[5] = "-"
       /\ c[8] = "-"

\* /^([01]\d|2[0-3]):[0-5]\d$/.test(s)
isValidTime(v) ==
    LET c == JsToString(v)
    IN /\ Len(c) = 5
       /\ \/ c[1] \in {"0", "1"} /\ IsDigit(c[2])
          \/ c[1] = "2" /\ c[2] \in {"0", "1", "2", "3"}
       /\ c[3] = ":"
       /\ c[4] \in {"0", "1", "2", "3", "4", "5"}
       /\ IsDigit(c[5])

\* ------------------------------------------- values crossing the SQL boundary
\* The DATE MySQL reads from a bound parameter: the text 'YYYY-MM-DD' of a
\* string, or the local midnight a Date object is escaped to.
SqlDate(v) ==
    IF v.t = "Date" THEN v.d
    ELSE LET c == JsToString(v)
         IN <<CharsToNat(SubSeq(c, 1, 4)), CharsToNat(SubSeq(c, 6, 7)),
              CharsToNat(SubSeq(c, 9, 10))>>

\* The TIME MySQL reads from a bound parameter 'HH:MM' or 'HH:MM:SS'.
SqlTime(v) ==
    LET c == JsToString(v)
    IN <<CharsToNat(SubSeq(c, 1, 2)), CharsToNat(SubSeq(c, 4, 5)),
         IF Len(c) >= 8 THEN CharsToNat(SubSeq(c, 7, 8)) ELSE 0>>

TwoDigits(i) == <<DigitChar(i \div 10), DigitChar(i % 10)>>

\* What the driver hands back for a DATE column: a Date object.
RowDate(date) == DateObj(date)

\* What the driver hands back for a TIME column: the string 'HH:MM:SS'.
RowTime(time) ==
    Str(TwoDigits(time[1]) \o <<":">> \o TwoDigits(time[2]) \o <<":">> \o TwoDigits(time[3]))
\* ------------------------------------------------------------------- state
VARIABLES
    patients,           \* table patients: id -> [name, contact]
    appointments,       \* table appointments: id -> [patient_id, appointment_date,
                        \*                appointment_time, reason, created_at]
    nextPatientId,      \* AUTO_INCREMENT of patients.id
    nextAppointmentId,  \* AUTO_INCREMENT of appointments.id
    pc,                 \* per request slot: "idle", the await the handler is at, "done"
    req,                \* per request slot: the route, the path parameter and the body
    appt,               \* per request slot: rows[0] of the update handler's SELECT
    res,                \* per request slot: the response sent (status 0: none sent)
    inUse,              \* pool: the request slots whose query holds a connection
    queue               \* pool: the request slots waiting for a connection, in order

vars == <<patients, appointments, nextPatientId, nextAppointmentId, pc, req, appt, res,
          inUse, queue>>
store == <<patients, appointments, nextPatientId, nextAppointmentId>>
pool == <<inUse, queue>>

Procs == {1, 2}

NoReq == [op |-> "none", id |-> <<>>, PatientId |-> Undefined, AppointmentDate |-> Undefined,
          AppointmentTime |-> Undefined, Reason |-> Undefined, name |-> Undefined,
          contact |-> Undefined]
NoRow == [id |-> Undefined, patient_id |-> Undefined, appointment_date |-> Undefined,
          appointment_time |-> Undefined, reason |-> Undefined]
NoRes == [status |-> 0, message |-> "", body |-> NoRow]

\* The row of appointments with primary key i, as the driver returns it.
RowOf(i) ==
    [id |-> Num(i),
     patient_id |-> Num(appointments[i].patient_id),
     appointment_date |-> RowDate(appointments[i].appointment_date),
     appointment_time |-> RowTime(appointments[i].appointment_time),
     reason |-> Str(appointments[i].reason)]

\* The startup block has run on an empty database: both tables exist and the
\* default patient is seeded.
Init ==
    /\ patients = [i \in {SeedPatientId} |-> [name |-> <<"J">>, contact |-> Str(<<"1">>)]]
    /\ appointments = [i \in {} |-> NoRow]
    /\ nextPatientId = SeedPatientId + 1
    /\ nextAppointmentId = 1
    /\ pc = [p \in Procs |-> "idle"]
    /\ req = [p \in Procs |-> NoReq]
    /\ appt = [p \in Procs |-> NoRow]
    /\ res = [p \in Procs |-> NoRes]
    /\ inUse = {}
    /\ queue = <<>>

\* ----------------------------------------------------------------- helpers
\* Mutant: the existence check answers true for every patient id.
ensurePatientExists_always(patientId) == patientId.n = patientId.n

\* SELECT id FROM patients WHERE id = ?
ensurePatientExists(patientId) == patientId.n \in DOMAIN patients

\* Mutant: rows.length > 1 in place of rows.length > 0.
isSlotTaken_offByOne(patientId, date, time) ==
    Cardinality({i \in DOMAIN appointments :
        /\ appointments[i].patient_id = patientId.n
        /\ appointments[i].appointment_date = SqlDate(date)
        /\ appointments[i].appointment_time = SqlTime(time)}) > 1

\* Mutant: the query leaves out patient_id = ?.
isSlotTaken_anyPatient(patientId, date, time) ==
    \E i \in DOMAIN appointments :
        /\ appointments[i].appointment_date = SqlDate(date)
        /\ appointments[i].appointment_time = SqlTime(time)

\* SELECT id FROM appointments WHERE patient_id = ? AND appointment_date = ?
\*   AND appointment_time = ?
isSlotTaken(patientId, date, time) ==
    \E i \in DOMAIN appointments :
        /\ appointments[i].patient_id = patientId.n
        /\ appointments[i].appointment_date = SqlDate(date)
        /\ appointments[i].appointment_time = SqlTime(time)

\* A request may arrive at a slot that handles none.
Free(p) == pc[p] = "idle"

\* res.status(status).json({message, ...body}) and the handler returns.
Respond(p, status, message, body) ==
    /\ res' = [res EXCEPT ![p] = [status |-> status, message |-> message, body |-> body]]
    /\ pc' = [pc EXCEPT ![p] = "done"]

\* An awaited query rejects in a handler that has no try/catch: the handler's
\* promise rejects.  Express 4 then never answers the request, Express 5 passes
\* the error to its default handler, which answers 500.
Reject(p) ==
    \E status \in {0, 500} : Respond(p, status, "unhandled rejection", NoRow)
\* INSERT of a row under a fresh AUTO_INCREMENT key
InsertRow(table, key, row) ==
    [i \in DOMAIN table \cup {key} |-> IF i = key THEN row ELSE table[i]]

\* Mutant: the DELETE's WHERE clause matches no row.
DeleteRow_none(table, key) == [i \in DOMAIN table |-> table[i]]

\* DELETE of the row with primary key `key`
DeleteRow(table, key) == [i \in DOMAIN table \ {key} |-> table[i]]

\* ------------------------------------------------------------ patient routes
\* app.post('/patients')
PostPatients(p, in) ==
    /\ Free(p)
    /\ nextPatientId <= LastPatientId
    /\ \E name \in in.name, contact \in in.contact :
        /\ req' = [req EXCEPT ![p] = [NoReq EXCEPT !.op = "POST /patients", !.name = name,
                                                   !.contact = contact]]
        /\ IF ~Truthy(name) \/ TypeOf(name) # "string" \/ Trim(name.s) = <<>>
           THEN /\ Respond(p, 400, "Invalid name", NoRow)
                /\ UNCHANGED <<patients, nextPatientId>>
           ELSE /\ patients' = InsertRow(patients, nextPatientId,
                                         [name |-> Trim(name.s),
                                          contact |-> IF Truthy(contact) THEN contact ELSE Null])
                /\ nextPatientId' = nextPatientId + 1
                /\ Respond(p, 201, "Patient created successfully",
                           [NoRow EXCEPT !.id = Num(nextPatientId)])
    /\ UNCHANGED <<appointments, nextAppointmentId, appt>>

\* app.get('/patients/:id')
GetPatient(p, ids) ==
    /\ Free(p)
    /\ \E chars \in ids :
        LET id == parseInt(chars) IN
        /\ req' = [req EXCEPT ![p] = [NoReq EXCEPT !.op = "GET /patients/:id", !.id = chars]]
        /\ IF isNaN(id) \/ id.n <= 0
           THEN Respond(p, 400, "Invalid PatientId", NoRow)
           ELSE IF id.n \notin DOMAIN patients
           THEN Respond(p, 404, "Patient not found", NoRow)
           ELSE Respond(p, 200, "", [PatientId |-> id, name |-> Str(patients[id.n].name),
                                     contact |-> patients[id.n].contact])
    /\ UNCHANGED <<store, appt>>

\* UPDATE patients SET name = ?, contact = ? WHERE id = ?
UpdatePatient(id, name, contact) ==
    [i \in DOMAIN patients |->
        IF i = id THEN [name |-> JsToString(name), contact |-> Str(JsToString(contact))]
        ELSE patients[i]]

\* app.put('/patients/:id')
PutPatient(p, ids, in) ==
    /\ Free(p)
    /\ \E chars \in ids, name \in in.name, contact \in in.contact :
        LET id == parseInt(chars) IN
        /\ req' = [req EXCEPT ![p] = [NoReq EXCEPT !.op = "PUT /patients/:id", !.id = chars,
                                                   !.name = name, !.contact = contact]]
        /\ IF isNaN(id) \/ id.n <= 0
           THEN Respond(p, 400, "Invalid PatientId", NoRow) /\ UNCHANGED patients
           ELSE IF ~Truthy(name) \/ ~Truthy(contact)
           THEN Respond(p, 400, "Name and contact are required", NoRow) /\ UNCHANGED patients
           ELSE IF id.n \notin DOMAIN patients
           THEN Respond(p, 404, "Patient not found", NoRow) /\ UNCHANGED patients
           ELSE /\ patients' = UpdatePatient(id.n, name, contact)
                /\ Respond(p, 200, "Patient updated successfully", NoRow)
    /\ UNCHANGED <<appointments, nextPatientId, nextAppointmentId, appt>>

\* Mutant: the appointments table declares no foreign key, and the DELETE of a
\* referenced patient goes through.
DeletePatient_noForeignKey(p, ids) ==
    /\ Free(p)
    /\ \E chars \in ids :
        LET id == parseInt(chars) IN
        /\ req' = [req EXCEPT ![p] = [NoReq EXCEPT !.op = "DELETE /patients/:id", !.id = chars]]
        /\ IF isNaN(id) \/ id.n <= 0
           THEN Respond(p, 400, "Invalid PatientId", NoRow) /\ UNCHANGED patients
           ELSE IF id.n \notin DOMAIN patients
           THEN Respond(p, 404, "Patient not found", NoRow) /\ UNCHANGED patients
           ELSE /\ patients' = DeleteRow(patients, id.n)
                /\ Respond(p, 200, "Patient deleted successfully", NoRow)
    /\ UNCHANGED <<appointments, nextPatientId, nextAppointmentId, appt>>

\* app.delete('/patients/:id').  appointments.patient_id REFERENCES patients(id)
\* with no ON DELETE clause: the DELETE of a referenced patient fails, and the
\* handler's catch answers 500.
DeletePatient(p, ids) ==
    /\ Free(p)
    /\ \E chars \in ids :
        LET id == parseInt(chars) IN
        /\ req' = [req EXCEPT ![p] = [NoReq EXCEPT !.op = "DELETE /patients/:id", !.id = chars]]
        /\ IF isNaN(id) \/ id.n <= 0
           THEN Respond(p, 400, "Invalid PatientId", NoRow) /\ UNCHANGED patients
           ELSE IF \E i \in DOMAIN appointments : appointments[i].patient_id = id.n
           THEN Respond(p, 500, "Database error", NoRow) /\ UNCHANGED patients
           ELSE IF id.n \notin DOMAIN patients
           THEN Respond(p, 404, "Patient not found", NoRow) /\ UNCHANGED patients
           ELSE /\ patients' = DeleteRow(patients, id.n)
                /\ Respond(p, 200, "Patient deleted successfully", NoRow)
    /\ UNCHANGED <<appointments, nextPatientId, nextAppointmentId, appt>>

\* -------------------------------------------------------- POST /appointments
\* app.post('/appointments'), lines 542-555: the synchronous validation
PostAppointments(p, in) ==
    /\ Free(p)
    /\ \E PatientId \in in.PatientId, AppointmentDate \in in.AppointmentDate,
          AppointmentTime \in in.AppointmentTime, Reason \in in.Reason :
        /\ req' = [req EXCEPT ![p] = [NoReq EXCEPT !.op = "POST /appointments",
                                                   !.PatientId = PatientId,
                                                   !.AppointmentDate = AppointmentDate,
                                                   !.AppointmentTime = AppointmentTime,
                                                   !.Reason = Reason]]
        /\ IF ~NumberIsInteger(PatientId) \/ PatientId.n <= 0
           THEN Respond(p, 400, "Invalid PatientId", NoRow)
           ELSE IF ToStringThrows(AppointmentDate)
           THEN Reject(p)
           ELSE IF ~isValidDate(AppointmentDate)
           THEN Respond(p, 400, "AppointmentDate must be 'YYYY-MM-DD'", NoRow)
           ELSE IF ToStringThrows(AppointmentTime)
           THEN Reject(p)
           ELSE IF ~isValidTime(AppointmentTime)
           THEN Respond(p, 400, "AppointmentTime must be 'HH:MM' (24h)", NoRow)
           ELSE IF ~Truthy(Reason) \/ TypeOf(Reason) # "string" \/ Trim(Reason.s) = <<>>
           THEN Respond(p, 400, "Reason is required", NoRow)
           ELSE /\ pc' = [pc EXCEPT ![p] = "POST ensurePatientExists"]
                /\ res' = [res EXCEPT ![p] = NoRes]
    /\ UNCHANGED <<store, appt>>

\* lines 557-559: await ensurePatientExists(PatientId)
PostAppointments_ensurePatientExists(p) ==
    /\ pc[p] = "POST ensurePatientExists"
    /\ IF ~ensurePatientExists(req[p].PatientId)
       THEN Respond(p, 404, "Patient not found", NoRow)
       ELSE pc' = [pc EXCEPT ![p] = "POST isSlotTaken"] /\ UNCHANGED res
    /\ UNCHANGED <<store, req, appt>>

\* Mutant: the conflict is found by an INSERT that fails on the slot, which
\* uses up the AUTO_INCREMENT value it was given.
PostAppointments_isSlotTaken_insertFirst(p) ==
    /\ pc[p] = "POST isSlotTaken"
    /\ IF isSlotTaken(req[p].PatientId, req[p].AppointmentDate, req[p].AppointmentTime)
       THEN /\ Respond(p, 409, "This time slot is already booked for this patient", NoRow)
            /\ nextAppointmentId' = nextAppointmentId + 1
       ELSE /\ pc' = [pc EXCEPT ![p] = "POST insert"]
            /\ UNCHANGED <<res, nextAppointmentId>>
    /\ UNCHANGED <<patients, appointments, nextPatientId, req, appt>>

\* lines 560-562: await isSlotTaken(PatientId, AppointmentDate, AppointmentTime)
PostAppointments_isSlotTaken(p) ==
    /\ pc[p] = "POST isSlotTaken"
    /\ IF isSlotTaken(req[p].PatientId, req[p].AppointmentDate, req[p].AppointmentTime)
       THEN Respond(p, 409, "This time slot is already booked for this patient", NoRow)
       ELSE pc' = [pc EXCEPT ![p] = "POST insert"] /\ UNCHANGED res
    /\ UNCHANGED <<store, req, appt>>

\* Mutant: the table carries UNIQUE (patient_id, appointment_date,
\* appointment_time), so the INSERT of a held slot fails.
InsertAppointment_uniqueSlot(p, now) ==
    IF \/ req[p].PatientId.n \notin DOMAIN patients
       \/ isSlotTaken(req[p].PatientId, req[p].AppointmentDate, req[p].AppointmentTime)
    THEN Reject(p) /\ UNCHANGED appointments
    ELSE /\ appointments' = InsertRow(appointments, nextAppointmentId,
                [patient_id |-> req[p].PatientId.n,
                 appointment_date |-> SqlDate(req[p].AppointmentDate),
                 appointment_time |-> SqlTime(req[p].AppointmentTime),
                 reason |-> Trim(req[p].Reason.s),
                 created_at |-> now])
         /\ Respond(p, 201, "Appointment created successfully",
                    [id |-> Num(nextAppointmentId),
                     patient_id |-> req[p].PatientId,
                     appointment_date |-> req[p].AppointmentDate,
                     appointment_time |-> req[p].AppointmentTime,
                     reason |-> Str(Trim(req[p].Reason.s))])

\* Mutant: the table declares no foreign key, and the INSERT goes through
\* whether or not the patient exists.
InsertAppointment_noForeignKey(p, now) ==
    /\ appointments' = InsertRow(appointments, nextAppointmentId,
           [patient_id |-> req[p].PatientId.n,
            appointment_date |-> SqlDate(req[p].AppointmentDate),
            appointment_time |-> SqlTime(req[p].AppointmentTime),
            reason |-> Trim(req[p].Reason.s),
            created_at |-> now])
    /\ Respond(p, 201, "Appointment created successfully",
               [id |-> Num(nextAppointmentId),
                patient_id |-> req[p].PatientId,
                appointment_date |-> req[p].AppointmentDate,
                appointment_time |-> req[p].AppointmentTime,
                reason |-> Str(Trim(req[p].Reason.s))])

\* The INSERT of lines 564-567 on the table of lines 53-63: the primary key is
\* the next AUTO_INCREMENT value, created_at defaults to CURRENT_TIMESTAMP
\* (`now`), the foreign key must resolve, and no other constraint exists.
InsertAppointment(p, now) ==
    IF req[p].PatientId.n \notin DOMAIN patients
    THEN Reject(p) /\ UNCHANGED appointments
    ELSE /\ appointments' = InsertRow(appointments, nextAppointmentId,
                [patient_id |-> req[p].PatientId.n,
                 appointment_date |-> SqlDate(req[p].AppointmentDate),
                 appointment_time |-> SqlTime(req[p].AppointmentTime),
                 reason |-> Trim(req[p].Reason.s),
                 created_at |-> now])
         /\ Respond(p, 201, "Appointment created successfully",
                    [id |-> Num(nextAppointmentId),
                     patient_id |-> req[p].PatientId,
                     appointment_date |-> req[p].AppointmentDate,
                     appointment_time |-> req[p].AppointmentTime,
                     reason |-> Str(Trim(req[p].Reason.s))])

\* lines 564-576: await pool.query('INSERT ...') and the 201 response
PostAppointments_insert(p, maxId, nows) ==
    /\ pc[p] = "POST insert"
    /\ nextAppointmentId <= maxId
    /\ \E now \in nows : InsertAppointment(p, now)
    /\ nextAppointmentId' = nextAppointmentId + 1
    /\ UNCHANGED <<patients, nextPatientId, req, appt>>
\* ----------------------------------------------------- GET /appointments/:id
\* app.get('/appointments/:id').  A NaN parameter is escaped to the bare word
\* NaN, which MySQL rejects as an unknown column: the query rejects.
GetAppointment(p, ids) ==
    /\ Free(p)
    /\ \E chars \in ids :
        LET id == parseInt(chars) IN
        /\ req' = [req EXCEPT ![p] = [NoReq EXCEPT !.op = "GET /appointments/:id", !.id = chars]]
        /\ IF isNaN(id) THEN Reject(p)
           ELSE IF id.n \notin DOMAIN appointments
           THEN Respond(p, 404, "Appointment not found", NoRow)
           ELSE Respond(p, 200, "", RowOf(id.n))
    /\ UNCHANGED <<store, appt>>

\* ----------------------------------------------------- PUT /appointments/:id
\* lines 691-693 of app.put('/appointments/:id')
newDate(p) == IF Truthy(req[p].AppointmentDate) THEN req[p].AppointmentDate
              ELSE appt[p].appointment_date
newTime(p) == IF Truthy(req[p].AppointmentTime) THEN req[p].AppointmentTime
              ELSE appt[p].appointment_time
\* Mutant: the submitted reason is kept as sent, untrimmed.
newReason_untrimmed(p) == IF TypeOf(req[p].Reason) = "string" /\ Trim(req[p].Reason.s) # <<>>
                          THEN Str(req[p].Reason.s)
                          ELSE appt[p].reason

newReason(p) == IF TypeOf(req[p].Reason) = "string" /\ Trim(req[p].Reason.s) # <<>>
                THEN Str(Trim(req[p].Reason.s))
                ELSE appt[p].reason

\* SELECT * FROM appointments WHERE id = ?
SelectAppointment(id) == IF id \in DOMAIN appointments THEN <<RowOf(id)>> ELSE <<>>

\* Mutant: the body is validated before rows.length is looked at.
PutChecks_validateFirst(rows, AppointmentDate, AppointmentTime) ==
    IF Truthy(AppointmentDate) /\ ToStringThrows(AppointmentDate) THEN "throw"
    ELSE IF Truthy(AppointmentDate) /\ ~isValidDate(AppointmentDate) THEN "400 date"
    ELSE IF Truthy(AppointmentTime) /\ ToStringThrows(AppointmentTime) THEN "throw"
    ELSE IF Truthy(AppointmentTime) /\ ~isValidTime(AppointmentTime) THEN "400 time"
    ELSE IF Len(rows) = 0 THEN "404"
    ELSE "continue"

\* lines 680-689: what the handler answers once the SELECT has returned `rows`
PutChecks(rows, AppointmentDate, AppointmentTime) ==
    IF Len(rows) = 0 THEN "404"
    ELSE IF Truthy(AppointmentDate) /\ ToStringThrows(AppointmentDate) THEN "throw"
    ELSE IF Truthy(AppointmentDate) /\ ~isValidDate(AppointmentDate) THEN "400 date"
    ELSE IF Truthy(AppointmentTime) /\ ToStringThrows(AppointmentTime) THEN "throw"
    ELSE IF Truthy(AppointmentTime) /\ ~isValidTime(AppointmentTime) THEN "400 time"
    ELSE "continue"

\* lines 678-689: the SELECT of the record and the validation of the body
PutAppointment(p, in) ==
    /\ Free(p)
    /\ \E chars \in in.id, AppointmentDate \in in.AppointmentDate,
          AppointmentTime \in in.AppointmentTime, Reason \in in.Reason :
        LET id == parseInt(chars) IN
        /\ req' = [req EXCEPT ![p] = [NoReq EXCEPT !.op = "PUT /appointments/:id",
                                                   !.id = chars,
                                                   !.AppointmentDate = AppointmentDate,
                                                   !.AppointmentTime = AppointmentTime,
                                                   !.Reason = Reason]]
        /\ IF isNaN(id) THEN Reject(p) /\ UNCHANGED appt
           ELSE LET rows == SelectAppointment(id.n)
                    check == PutChecks(rows, AppointmentDate, AppointmentTime)
                IN /\ appt' = [appt EXCEPT ![p] = IF Len(rows) = 0 THEN NoRow ELSE rows[1]]
                   /\ CASE check = "404" -> Respond(p, 404, "Appointment not found", NoRow)
                        [] check = "throw" -> Reject(p)
                        [] check = "400 date" ->
                             Respond(p, 400, "AppointmentDate must be 'YYYY-MM-DD'", NoRow)
                        [] check = "400 time" ->
                             Respond(p, 400, "AppointmentTime must be 'HH:MM' (24h)", NoRow)
                        [] OTHER -> /\ pc' = [pc EXCEPT ![p] = "PUT isSlotTaken"]
                                    /\ res' = [res EXCEPT ![p] = NoRes]
    /\ UNCHANGED store

\* Mutant: the update goes to its write without the slot query.
PutAppointment_isSlotTaken_unchecked(p) ==
    /\ pc[p] = "PUT isSlotTaken"
    /\ pc' = [pc EXCEPT ![p] = "PUT update"]
    /\ UNCHANGED <<store, req, appt, res>>

\* Mutant: || in place of && between the two comparisons of line 696.
PutAppointment_isSlotTaken_sameDateOrTime(p) ==
    /\ pc[p] = "PUT isSlotTaken"
    /\ IF /\ isSlotTaken(appt[p].patient_id, newDate(p), newTime(p))
          /\ ~(\/ StrictEquals(newDate(p), appt[p].appointment_date)
               \/ StrictEquals(newTime(p), appt[p].appointment_time))
       THEN Respond(p, 409, "This time slot is already booked for this patient", NoRow)
       ELSE pc' = [pc EXCEPT ![p] = "PUT update"] /\ UNCHANGED res
    /\ UNCHANGED <<store, req, appt>>

\* lines 695-698: the slot query and the comparison with the record's own slot
PutAppointment_isSlotTaken(p) ==
    /\ pc[p] = "PUT isSlotTaken"
    /\ IF /\ isSlotTaken(appt[p].patient_id, newDate(p), newTime(p))
          /\ ~(/\ StrictEquals(newDate(p), appt[p].appointment_date)
               /\ StrictEquals(newTime(p), appt[p].appointment_time))
       THEN Respond(p, 409, "This time slot is already booked for this patient", NoRow)
       ELSE pc' = [pc EXCEPT ![p] = "PUT update"] /\ UNCHANGED res
    /\ UNCHANGED <<store, req, appt>>

\* Mutant: created_at is declared ON UPDATE CURRENT_TIMESTAMP, and the clock
\* has advanced since the INSERT.
UpdateAppointment_onUpdateTimestamp(id, date, time, reason) ==
    [i \in DOMAIN appointments |->
        IF i = id
        THEN [appointments[i] EXCEPT !.appointment_date = SqlDate(date),
                                     !.appointment_time = SqlTime(time),
                                     !.reason = reason.s,
                                     !.created_at = @ + 1]
        ELSE appointments[i]]

\* UPDATE appointments SET appointment_date = ?, appointment_time = ?, reason = ?
\*   WHERE id = ?.  created_at has a DEFAULT and no ON UPDATE clause.
UpdateAppointment(id, date, time, reason) ==
    [i \in DOMAIN appointments |->
        IF i = id
        THEN [appointments[i] EXCEPT !.appointment_date = SqlDate(date),
                                     !.appointment_time = SqlTime(time),
                                     !.reason = reason.s]
        ELSE appointments[i]]

\* lines 700-712: the UPDATE and the 200 response
PutAppointment_update(p) ==
    /\ pc[p] = "PUT update"
    /\ appointments' = UpdateAppointment(appt[p].id.n, newDate(p), newTime(p), newReason(p))
    /\ Respond(p, 200, "Appointment updated successfully",
               [id |-> appt[p].id,
                patient_id |-> appt[p].patient_id,
                appointment_date |-> newDate(p),
                appointment_time |-> newTime(p),
                reason |-> newReason(p)])
    /\ UNCHANGED <<patients, nextPatientId, nextAppointmentId, req, appt>>

\* -------------------------------------------------- DELETE /appointments/:id
\* app.delete('/appointments/:id')
DeleteAppointment(p, ids) ==
    /\ Free(p)
    /\ \E chars \in ids :
        LET id == parseInt(chars) IN
        /\ req' = [req EXCEPT ![p] = [NoReq EXCEPT !.op = "DELETE /appointments/:id",
                                                   !.id = chars]]
        /\ IF isNaN(id) THEN Reject(p) /\ UNCHANGED appointments
           ELSE IF id.n \notin DOMAIN appointments
           THEN Respond(p, 404, "Appointment not found", NoRow) /\ UNCHANGED appointments
           ELSE /\ appointments' = DeleteRow(appointments, id.n)
                /\ Respond(p, 200, "Appointment deleted successfully",
                           [NoRow EXCEPT !.id = id])
    /\ UNCHANGED <<patients, nextPatientId, nextAppointmentId, appt>>

\* ------------------------------------------------------ failing storage calls
\* The query the handler of slot p awaits fails (the database is unreachable,
\* the connection is lost): pool.query rejects and the statement has no effect.
QueryFails(p) ==
    /\ pc[p] \in {"POST ensurePatientExists", "POST isSlotTaken", "POST insert",
                  "PUT isSlotTaken", "PUT update"}
    /\ Reject(p)
    /\ UNCHANGED <<store, req, appt>>

\* The same for the query that opens the fetch, the update and the delete of
\* an appointment (lines 625, 679, 740): it fails before the handler has read
\* the table or the body.
FirstQueryFails(p, ids) ==
    /\ Free(p)
    /\ \E chars \in ids,
          op \in {"GET /appointments/:id", "PUT /appointments/:id",
                  "DELETE /appointments/:id"} :
        req' = [req EXCEPT ![p] = [NoReq EXCEPT !.op = op, !.id = chars]]
    /\ Reject(p)
    /\ UNCHANGED <<store, appt>>

\* ------------------------------------------------------- the connection pool
\* pool.query(sql) is getConnection, query, release.  The requests of the pool's
\* specification are the fetch of the patient list (lines 170-179, inside
\* try/catch) in the odd slots and the fetch of appointment 1 (lines 623-631, no
\* try/catch) in the even ones: one query each.
Clients == 1..NumClients
ClientOp(c) == IF c % 2 = 1 THEN "GET /patients" ELSE "GET /appointments/:id"

\* Pool.getConnection: a connection when fewer than connectionLimit are out,
\* else an error or a place in the queue, as the configuration says.
getConnection ==
    IF Cardinality(inUse) < connectionLimit THEN "granted"
    ELSE IF ~waitForConnections THEN "No connections available"
    ELSE IF queueLimit > 0 /\ Len(queue) >= queueLimit THEN "Queue limit reached"
    ELSE "queued"

\* What the handler of slot c answers when its query rejects: the catch of
\* line 175 answers 500; the fetch of an appointment has no catch.
QueryError(c) ==
    IF ClientOp(c) = "GET /patients"
    THEN {[status |-> 500, message |-> "Database error", body |-> NoRow]}
    ELSE {[status |-> status, message |-> "unhandled rejection", body |-> NoRow] :
              status \in {0, 500}}

\* What it answers when its query returns its rows.
QueryResult(c) ==
    IF ClientOp(c) = "GET /patients"
    THEN [status |-> 200, message |-> "", body |-> NoRow]
    ELSE IF 1 \in DOMAIN appointments
    THEN [status |-> 200, message |-> "", body |-> RowOf(1)]
    ELSE [status |-> 404, message |-> "Appointment not found", body |-> NoRow]

\* A request arrives at slot c and its handler calls pool.query.
PoolRequest(c) ==
    /\ pc[c] = "idle"
    /\ req' = [req EXCEPT ![c] = [NoReq EXCEPT !.op = ClientOp(c), !.id = <<"1">>]]
    /\ CASE getConnection = "granted" ->
               /\ inUse' = inUse \cup {c}
               /\ pc' = [pc EXCEPT ![c] = "pool query"]
               /\ UNCHANGED <<queue, res>>
         [] getConnection = "queued" ->
               /\ queue' = Append(queue, c)
               /\ pc' = [pc EXCEPT ![c] = "pool queued"]
               /\ UNCHANGED <<inUse, res>>
         [] OTHER ->
               /\ \E r \in QueryError(c) : res' = [res EXCEPT ![c] = r]
               /\ pc' = [pc EXCEPT ![c] = "done"]
               /\ UNCHANGED pool
    /\ UNCHANGED <<store, appt>>

\* Pool.releaseConnection by slot c, whose handler then ends: the connection
\* goes to the head of the queue, or back to the pool.
releaseConnection(c) ==
    /\ inUse' = IF queue = <<>> THEN inUse \ {c} ELSE (inUse \ {c}) \cup {Head(queue)}
    /\ queue' = IF queue = <<>> THEN queue ELSE Tail(queue)
    /\ pc' = [q \in DOMAIN pc |-> IF q = c THEN "done"
                                   ELSE IF queue # <<>> /\ q = Head(queue) THEN "pool query"
                                   ELSE pc[q]]

\* The query of slot c returns its rows.
PoolQueryCompletes(c) ==
    /\ pc[c] = "pool query"
    /\ releaseConnection(c)
    /\ res' = [res EXCEPT ![c] = QueryResult(c)]
    /\ UNCHANGED <<store, req, appt>>

\* The query of slot c fails.
PoolQueryFails(c) ==
    /\ pc[c] = "pool query"
    /\ releaseConnection(c)
    /\ \E r \in QueryError(c) : res' = [res EXCEPT ![c] = r]
    /\ UNCHANGED <<store, req, appt>>

\* The response has been sent and the handler has returned: the request is over
\* and its slot handles none.
Finished(p) ==
    /\ pc[p] = "done"
    /\ pc' = [pc EXCEPT ![p] = "idle"]
    /\ req' = [req EXCEPT ![p] = NoReq]
    /\ appt' = [appt EXCEPT ![p] = NoRow]
    /\ res' = [res EXCEPT ![p] = NoRes]
    /\ UNCHANGED store

\* ------------------------------------------------------------------ inputs
Chars_2025_08_20 == <<"2", "0", "2", "5", "-", "0", "8", "-", "2", "0">>
Chars_2025_08_21 == <<"2", "0", "2", "5", "-", "0", "8", "-", "2", "1">>
Chars_20_08_2025 == <<"2", "0", "-", "0", "8", "-", "2", "0", "2", "5">>
Chars_14_30 == <<"1", "4", ":", "3", "0">>
Chars_15_00 == <<"1", "5", ":", "0", "0">>
Chars_24_00 == <<"2", "4", ":", "0", "0">>

Chars_a == <<" ", "a", " ">>
Chars_b == <<"b", " ">>

\* Path parameters: the ids the table can hand out and one beyond them;
\* under the wide inputs also zero and a word that is no number.
Ids(maxId) == {NatToChars(i) : i \in 1..(maxId + 1)}
WideIds(maxId) == Ids(maxId) \cup {<<"0">>, <<"x">>}

\* Well-formed bodies over two patients, two dates and two times.
PostInputs ==
    [PatientId |-> {Num(1), Num(2)},
     AppointmentDate |-> {Str(Chars_2025_08_20), Str(Chars_2025_08_21)},
     AppointmentTime |-> {Str(Chars_14_30), Str(Chars_15_00)},
     Reason |-> {Str(Chars_a)}]

PutInputs ==
    [id |-> Ids(MaxAppointmentId),
     AppointmentDate |-> {Str(Chars_2025_08_20), Str(Chars_2025_08_21), Undefined},
     AppointmentTime |-> {Str(Chars_14_30), Str(Chars_15_00), Undefined},
     Reason |-> {Str(Chars_a), Undefined}]

\* Bodies with each field well-formed, malformed, of another type or absent.
WidePostInputs ==
    [PatientId |-> {Num(0), Num(1), Num(2), Str(<<"1">>)},
     AppointmentDate |-> {Str(Chars_2025_08_20), Str(Chars_2025_08_21), Str(Chars_20_08_2025),
                          Undefined},
     AppointmentTime |-> {Str(Chars_14_30), Str(Chars_15_00), Str(Chars_24_00), Undefined},
     Reason |-> {Str(Chars_a), Str(<<" ">>), Num(7), Undefined}]

WidePutInputs ==
    [id |-> WideIds(MaxInputsAppointmentId),
     AppointmentDate |-> {Str(Chars_2025_08_20), Str(Chars_2025_08_21), Str(Chars_20_08_2025),
                          Str(<<>>), Undefined},
     AppointmentTime |-> {Str(Chars_14_30), Str(Chars_15_00), Str(Chars_24_00), Undefined},
     Reason |-> {Str(Chars_b), Str(<<" ">>), Num(7), Undefined}]

\* Bodies of the patient routes: the name and the contact of the seeded
\* patient; under the wide inputs also a blank name and absent
\* fields.
PatientInputs == [name |-> {Str(<<"J", " ">>)}, contact |-> {Str(<<"1">>)}]
PatientUpdates == [name |-> {Str(<<"J">>)}, contact |-> {Str(<<"1">>)}]
WidePatientInputs == [name |-> {Str(<<"J", " ">>), Str(<<" ">>), Undefined},
                      contact |-> {Str(<<"1">>)}]
WidePatientUpdates == [name |-> {Str(<<"J">>), Undefined},
                       contact |-> {Str(<<"1">>), Undefined}]

\* Readings of the server's clock, CURRENT_TIMESTAMP: a second and the next.
Midnight == 0
Clock == {Midnight, Midnight + 1}

\* ---------------------------------------------------------- specifications
\* The steps of the request handled in slot p.
Handle(p, patient, patientPut, patientIds, ids, post, put, maxId, nows) ==
    \/ PostPatients(p, patient)
    \/ GetPatient(p, patientIds)
    \/ PutPatient(p, patientIds, patientPut)
    \/ DeletePatient(p, patientIds)
    \/ PostAppointments(p, post)
    \/ PostAppointments_ensurePatientExists(p)
    \/ PostAppointments_isSlotTaken(p)
    \/ PostAppointments_insert(p, maxId, nows)
    \/ GetAppointment(p, ids)
    \/ PutAppointment(p, put)
    \/ PutAppointment_isSlotTaken(p)
    \/ PutAppointment_update(p)
    \/ DeleteAppointment(p, ids)
    \/ Finished(p)

\* Requests one at a time, each running to its response before the next
\* arrives, with well-formed bodies.
Next ==
    /\ Handle(1, PatientInputs, PatientUpdates, Ids(LastPatientId), Ids(MaxAppointmentId),
              PostInputs, PutInputs, MaxAppointmentId, {Midnight})
    /\ UNCHANGED pool

Spec == Init /\ [][Next]_vars

\* Requests one at a time with the wide inputs.
NextInputs ==
    /\ Handle(1, WidePatientInputs, WidePatientUpdates, WideIds(LastPatientId),
              WideIds(MaxInputsAppointmentId),
              WidePostInputs, WidePutInputs, MaxInputsAppointmentId, {Midnight})
    /\ UNCHANGED pool

SpecInputs == Init /\ [][NextInputs]_vars

\* With at most two requests in flight the pool grants every query its
\* connection at once: these specifications leave the pool as it is.
\*
\* Requests in both slots at once, their steps interleaved at the awaits; one
\* date, two times, the seeded patient.
ConcPostInputs ==
    [PatientId |-> {Num(SeedPatientId)},
     AppointmentDate |-> {Str(Chars_2025_08_20)},
     AppointmentTime |-> {Str(Chars_14_30), Str(Chars_15_00)},
     Reason |-> {Str(Chars_a)}]

ConcPutInputs ==
    [id |-> Ids(MaxAppointmentId),
     AppointmentDate |-> {Undefined},
     AppointmentTime |-> {Str(Chars_14_30), Str(Chars_15_00), Undefined},
     Reason |-> {Undefined}]

NextConc ==
    /\ \E p \in Procs :
          Handle(p, PatientInputs, PatientUpdates, {NatToChars(SeedPatientId)},
                 Ids(MaxAppointmentId), ConcPostInputs, ConcPutInputs, MaxAppointmentId,
                 {Midnight})
    /\ UNCHANGED pool

SpecConc == Init /\ [][NextConc]_vars

\* Requests one at a time under what the environment decides: the reading of
\* the clock at an INSERT, and whether a storage call fails.  The seeded
\* patient, created at one date and two times, moved to another date.
EnvPostInputs ==
    [PatientId |-> {Num(SeedPatientId)},
     AppointmentDate |-> {Str(Chars_2025_08_20)},
     AppointmentTime |-> {Str(Chars_14_30), Str(Chars_15_00)},
     Reason |-> {Str(Chars_a)}]

EnvPutInputs ==
    [id |-> Ids(MaxAppointmentId),
     AppointmentDate |-> {Str(Chars_2025_08_21), Undefined},
     AppointmentTime |-> {Undefined},
     Reason |-> {Str(Chars_b), Undefined}]

NextEnv ==
    /\ \/ Handle(1, PatientInputs, PatientUpdates, Ids(LastPatientId), Ids(MaxAppointmentId),
                 EnvPostInputs, EnvPutInputs, MaxAppointmentId, Clock)
       \/ QueryFails(1)
       \/ FirstQueryFails(1, Ids(MaxAppointmentId))
    /\ UNCHANGED pool

SpecEnv == Init /\ [][NextEnv]_vars

\* Requests one at a time whose date and time are JSON values of every type.
TypedPostInputs ==
    [PatientId |-> {Num(SeedPatientId)},
     AppointmentDate |-> {Str(Chars_2025_08_20), Str(Chars_20_08_2025), Arr(Chars_2025_08_20),
                          Arr(<<>>), Num(7), Null, Obj, ObjOwnToString, Undefined},
     AppointmentTime |-> {Str(Chars_14_30), Str(Chars_24_00), Arr(Chars_14_30),
                          Arr(<<>>), Num(7), Null, Obj, ObjOwnToString, Undefined},
     Reason |-> {Str(Chars_a)}]

TypedPutInputs ==
    [id |-> Ids(MaxInputsAppointmentId),
     AppointmentDate |-> {Arr(Chars_2025_08_21), Obj, ObjOwnToString, Undefined},
     AppointmentTime |-> {Arr(Chars_15_00), Arr(<<>>), Null, Undefined},
     Reason |-> {Undefined}]

NextTypes ==
    /\ Handle(1, PatientInputs, PatientUpdates, Ids(SeedPatientId),
              Ids(MaxInputsAppointmentId), TypedPostInputs, TypedPutInputs,
              MaxInputsAppointmentId, {Midnight})
    /\ UNCHANGED pool

SpecTypes == Init /\ [][NextTypes]_vars

\* NumClients requests, one per slot, that contend for the pool's connections.
InitPool ==
    /\ patients = [i \in {SeedPatientId} |-> [name |-> <<"J">>, contact |-> Str(<<"1">>)]]
    /\ appointments = [i \in {} |-> NoRow]
    /\ nextPatientId = SeedPatientId + 1
    /\ nextAppointmentId = 1
    /\ pc = [c \in Clients |-> "idle"]
    /\ req = [c \in Clients |-> NoReq]
    /\ appt = [c \in Clients |-> NoRow]
    /\ res = [c \in Clients |-> NoRes]
    /\ inUse = {}
    /\ queue = <<>>

NextPool ==
    \E c \in Clients :
        \/ PoolRequest(c)
        \/ PoolQueryCompletes(c)
        \/ PoolQueryFails(c)

SpecPool == InitPool /\ [][NextPool]_vars
\* ------------------------------------------------------------------ claims
\* What the claims call things, stated apart from the handlers' code.
Answered(p, op) == pc[p] = "done" /\ req[p].op = op
PositiveInteger(v) == v.t = "number" /\ v.n > 0
WellFormedDates == {Str(Chars_2025_08_20), Str(Chars_2025_08_21)}
WellFormedTimes == {Str(Chars_14_30), Str(Chars_15_00)}
GivenReasons == {Str(Chars_a), Str(Chars_b)}
DateNamed(v) == IF v = Str(Chars_2025_08_20) THEN <<2025, 8, 20>> ELSE <<2025, 8, 21>>
TimeNamed(v) == IF v = Str(Chars_14_30) THEN <<14, 30, 0>> ELSE <<15, 0, 0>>
ReasonNamed(v) == IF v = Str(Chars_a) THEN <<"a">> ELSE <<"b">>
\* The live appointments of `patient` at (date, time).
Holders(patient, date, time) ==
    {i \in DOMAIN appointments : /\ appointments[i].patient_id = patient
                                 /\ appointments[i].appointment_date = date
                                 /\ appointments[i].appointment_time = time}

\* C1: with requests handled one at a time, no two live appointments of one
\* patient share a (date, time) pair.
C1_NoDoubleBooking ==
    \A i, j \in DOMAIN appointments :
        i # j /\ appointments[i].patient_id = appointments[j].patient_id
        => \/ appointments[i].appointment_date # appointments[j].appointment_date
           \/ appointments[i].appointment_time # appointments[j].appointment_time

\* C1 witness: two live appointments of one patient, and a request for a slot
\* one of them holds has just been refused.
C1_Witness ==
    /\ \E i, j \in DOMAIN appointments :
          i # j /\ appointments[i].patient_id = appointments[j].patient_id
    /\ \E p \in Procs : pc[p] = "done" /\ res[p].status = 409

\* C3: create-appointment answers with the first check that fails, in the order
\* PatientId, date, time, reason, patient existence, slot conflict; a malformed
\* date with a positive integer PatientId answers 400 with the date message.
C3_CreateCheckOrder ==
    \A p \in Procs : Answered(p, "POST /appointments") =>
        LET r == req[p] IN
        IF ~PositiveInteger(r.PatientId)
        THEN res[p].status = 400 /\ res[p].message = "Invalid PatientId"
        ELSE IF r.AppointmentDate \notin WellFormedDates
        THEN res[p].status = 400 /\ res[p].message = "AppointmentDate must be 'YYYY-MM-DD'"
        ELSE IF r.AppointmentTime \notin WellFormedTimes
        THEN res[p].status = 400 /\ res[p].message = "AppointmentTime must be 'HH:MM' (24h)"
        ELSE IF r.Reason \notin GivenReasons
        THEN res[p].status = 400 /\ res[p].message = "Reason is required"
        ELSE IF r.PatientId.n \notin DOMAIN patients
        THEN res[p].status = 404
        ELSE res[p].status \in {409, 201}

\* C3 witness: a create with a malformed date, for a patient that does not
\* exist, has been answered.
C3_Witness ==
    \E p \in Procs :
        /\ Answered(p, "POST /appointments")
        /\ req[p].AppointmentDate = Str(Chars_20_08_2025)
        /\ PositiveInteger(req[p].PatientId)
        /\ req[p].PatientId.n \notin DOMAIN patients
        /\ res[p].status = 400

\* C4 as claimed: a create whose patient reference (a positive integer) does
\* not exist in the store answers 404, whatever its date, time and reason.
C4_AlwaysNotFound ==
    \A p \in Procs :
        /\ Answered(p, "POST /appointments")
        /\ PositiveInteger(req[p].PatientId)
        /\ req[p].PatientId.n \notin DOMAIN patients
        => res[p].status = 404

\* C4 amended: a create whose PatientId is a positive integer that does not
\* exist in the store answers 404 when its date, time and reason are valid, and
\* the 400 of its first invalid field otherwise.
C4_NotFoundAfterValidation ==
    \A p \in Procs :
        /\ Answered(p, "POST /appointments")
        /\ PositiveInteger(req[p].PatientId)
        /\ req[p].PatientId.n \notin DOMAIN patients
        => IF /\ req[p].AppointmentDate \in WellFormedDates
              /\ req[p].AppointmentTime \in WellFormedTimes
              /\ req[p].Reason \in GivenReasons
           THEN res[p].status = 404 /\ res[p].message = "Patient not found"
           ELSE res[p].status = 400

\* C4 witness: a create with valid fields for a patient that does not exist
\* has been answered 404.
C4_Witness ==
    \E p \in Procs :
        /\ Answered(p, "POST /appointments")
        /\ req[p].PatientId = Num(2) /\ 2 \notin DOMAIN patients
        /\ req[p].AppointmentDate \in WellFormedDates
        /\ req[p].AppointmentTime \in WellFormedTimes
        /\ req[p].Reason \in GivenReasons
        /\ res[p].status = 404

\* C5: with requests handled one at a time, a create with valid fields for an
\* existing patient answers 409 exactly when a live appointment of that patient
\* holds the requested (date, time): answered 409, the slot is held; answered
\* 201, the appointment just created is its only holder.
C5_ConflictIffSlotHeld ==
    \A p \in Procs :
        /\ Answered(p, "POST /appointments")
        /\ PositiveInteger(req[p].PatientId)
        /\ req[p].PatientId.n \in DOMAIN patients
        /\ req[p].AppointmentDate \in WellFormedDates
        /\ req[p].AppointmentTime \in WellFormedTimes
        /\ req[p].Reason \in GivenReasons
        => LET holders == Holders(req[p].PatientId.n, DateNamed(req[p].AppointmentDate),
                                  TimeNamed(req[p].AppointmentTime))
           IN \/ res[p].status = 409 /\ holders # {}
              \/ res[p].status = 201 /\ holders = {res[p].body.id.n}

\* C5 witness: a second create of a triple a live appointment holds has been
\* answered 409, while another patient's appointment holds the same (date, time).
C5_Witness ==
    \E p \in Procs :
        /\ Answered(p, "POST /appointments")
        /\ res[p].status = 409
        /\ \E i \in DOMAIN appointments :
              /\ appointments[i].patient_id # req[p].PatientId.n
              /\ appointments[i].appointment_date = DateNamed(req[p].AppointmentDate)
              /\ appointments[i].appointment_time = TimeNamed(req[p].AppointmentTime)
\* The path parameter is a decimal numeral / the identity it writes.
IsNumeral(chars) == chars # <<>> /\ \A i \in DOMAIN chars : IsDigit(chars[i])
Identity(p) == CharsToNat(req[p].id)
\* An update's resulting date, time and reason over the record `row`: the
\* submitted value when it is well-formed, the record's value otherwise.
ResultingDate(p, row) == IF req[p].AppointmentDate \in WellFormedDates
                         THEN DateNamed(req[p].AppointmentDate) ELSE row.appointment_date
ResultingTime(p, row) == IF req[p].AppointmentTime \in WellFormedTimes
                         THEN TimeNamed(req[p].AppointmentTime) ELSE row.appointment_time
ResultingReason(p, row) == IF req[p].Reason \in GivenReasons
                           THEN ReasonNamed(req[p].Reason) ELSE row.reason
\* The text the store returns for a TIME.
TimeText(time) == IF time = <<14, 30, 0>>
                  THEN Str(<<"1", "4", ":", "3", "0", ":", "0", "0">>)
                  ELSE Str(<<"1", "5", ":", "0", "0", ":", "0", "0">>)

\* C2: a create that has passed the slot check and whose patient still exists
\* inserts its row and answers 201 whatever the table holds by then, a live
\* appointment of the same (patient, date, time) included: neither the handler
\* nor the table definition refuses the second of two interleaved creates.
C2_InsertUnguarded ==
    [][\A p \in Procs :
          /\ pc[p] = "POST insert" /\ pc'[p] = "done"
          /\ req[p].PatientId.n \in DOMAIN patients
          => /\ res'[p].status = 201
             /\ DOMAIN appointments' = DOMAIN appointments \cup {nextAppointmentId}
             /\ appointments'[nextAppointmentId].patient_id = req[p].PatientId.n
             /\ appointments'[nextAppointmentId].appointment_date
                    = DateNamed(req[p].AppointmentDate)
             /\ appointments'[nextAppointmentId].appointment_time
                    = TimeNamed(req[p].AppointmentTime)
             /\ \A i \in DOMAIN appointments : appointments'[i] = appointments[i]]_vars

\* C2 witness: two creates of one (patient, date, time) have both been answered
\* 201 and the table holds both rows.
C2_Witness ==
    /\ Answered(1, "POST /appointments") /\ Answered(2, "POST /appointments")
    /\ res[1].status = 201 /\ res[2].status = 201
    /\ req[1].PatientId = req[2].PatientId
    /\ req[1].AppointmentDate = req[2].AppointmentDate
    /\ req[1].AppointmentTime = req[2].AppointmentTime
    /\ res[1].body.id.n # res[2].body.id.n
    /\ {res[1].body.id.n, res[2].body.id.n} \subseteq
           Holders(req[1].PatientId.n, DateNamed(req[1].AppointmentDate),
                   TimeNamed(req[1].AppointmentTime))

\* C6 as claimed: an update of a live appointment whose resulting (date, time)
\* is the slot the appointment holds is answered 200, whether date and time are
\* left out or submitted with the values the record holds.
C6_NoSelfConflict ==
    \A p \in Procs :
        /\ Answered(p, "PUT /appointments/:id")
        /\ IsNumeral(req[p].id)
        /\ Identity(p) \in DOMAIN appointments
        /\ ResultingDate(p, appointments[Identity(p)])
               = appointments[Identity(p)].appointment_date
        /\ ResultingTime(p, appointments[Identity(p)])
               = appointments[Identity(p)].appointment_time
        => res[p].status = 200

\* C7: with requests handled one at a time, an update whose resulting slot is
\* held by another live appointment of the same patient answers 409 and leaves
\* the store as it was; one whose resulting slot no appointment of that patient
\* holds (other patients' appointments may) goes on to write it and answers 200.
C7_UpdateConflict ==
    [][\A p \in Procs :
          LET id == Identity(p)
              row == appointments[id]
              holders == Holders(row.patient_id, ResultingDate(p, row), ResultingTime(p, row))
          IN /\ pc[p] = "PUT isSlotTaken" /\ pc'[p] # "PUT isSlotTaken"
                => /\ holders \ {id} # {}
                      => res'[p].status = 409 /\ pc'[p] = "done" /\ store' = store
                   /\ holders = {} => pc'[p] = "PUT update" /\ store' = store
             /\ pc[p] = "PUT update" /\ pc'[p] # "PUT update"
                => /\ res'[p].status = 200
                   /\ appointments'[id].appointment_date = ResultingDate(p, row)
                   /\ appointments'[id].appointment_time = ResultingTime(p, row)]_vars

\* C7 witness: an update into the slot of another live appointment of the same
\* patient has been answered 409.
C7_Witness ==
    \E p \in Procs :
        /\ Answered(p, "PUT /appointments/:id")
        /\ res[p].status = 409
        /\ Identity(p) \in DOMAIN appointments
        /\ Holders(appointments[Identity(p)].patient_id,
                   ResultingDate(p, appointments[Identity(p)]),
                   ResultingTime(p, appointments[Identity(p)])) \ {Identity(p)} # {}

\* C8: an update whose identity resolves to no live record answers 404, whatever
\* its body: a malformed date or time does not turn the answer into 400.
C8_NotFoundBeforeValidation ==
    \A p \in Procs :
        /\ Answered(p, "PUT /appointments/:id")
        /\ IsNumeral(req[p].id)
        /\ Identity(p) \notin DOMAIN appointments
        => res[p].status = 404 /\ res[p].message = "Appointment not found"

\* C8 witness: an update of an identity that is not live, with a malformed date
\* and a malformed time, has been answered.
C8_Witness ==
    \E p \in Procs :
        /\ Answered(p, "PUT /appointments/:id")
        /\ IsNumeral(req[p].id)
        /\ Identity(p) \notin DOMAIN appointments
        /\ req[p].AppointmentDate = Str(Chars_20_08_2025)
        /\ req[p].AppointmentTime = Str(Chars_24_00)
        /\ res[p].status = 404

\* C9: the write of a successful update leaves in the record, and the 200
\* response returns, for each of date, time and reason the submitted value when
\* it is present and valid (the reason trimmed) and the value the record held
\* otherwise; a fetch of a live identity returns the record as stored.
C9_UpdateMerge ==
    [][\A p \in Procs :
          /\ pc[p] = "PUT update" /\ pc'[p] = "done"
             => LET id == Identity(p)
                    old == appointments[id]
                    body == res'[p].body
                IN /\ res'[p].status = 200
                   /\ DOMAIN appointments' = DOMAIN appointments
                   /\ appointments'[id] =
                         [patient_id |-> old.patient_id,
                          appointment_date |-> ResultingDate(p, old),
                          appointment_time |-> ResultingTime(p, old),
                          reason |-> ResultingReason(p, old),
                          created_at |-> old.created_at]
                   /\ body.id = Num(id)
                   /\ body.patient_id = Num(old.patient_id)
                   /\ body.appointment_date =
                         IF req[p].AppointmentDate \in WellFormedDates
                         THEN req[p].AppointmentDate ELSE DateObj(old.appointment_date)
                   /\ body.appointment_time =
                         IF req[p].AppointmentTime \in WellFormedTimes
                         THEN req[p].AppointmentTime ELSE TimeText(old.appointment_time)
                   /\ body.reason = Str(ResultingReason(p, old))
          /\ /\ pc[p] = "idle" /\ pc'[p] = "done"
             /\ req'[p].op = "GET /appointments/:id"
             /\ IsNumeral(req'[p].id)
             /\ CharsToNat(req'[p].id) \in DOMAIN appointments
             => LET row == appointments[CharsToNat(req'[p].id)]
                    body == res'[p].body
                IN /\ res'[p].status = 200
                   /\ body.id = Num(CharsToNat(req'[p].id))
                   /\ body.patient_id = Num(row.patient_id)
                   /\ body.appointment_date = DateObj(row.appointment_date)
                   /\ body.appointment_time = TimeText(row.appointment_time)
                   /\ body.reason = Str(row.reason)]_vars

\* C9 witness: an update that submitted only a time has been answered 200; the
\* record holds that time, and the date and reason it was created with.
C9_Witness ==
    \E p \in Procs :
        /\ Answered(p, "PUT /appointments/:id")
        /\ res[p].status = 200
        /\ req[p].AppointmentDate = Undefined /\ req[p].Reason = Undefined
        /\ req[p].AppointmentTime = Str(Chars_15_00)
        /\ res[p].body.appointment_time = Str(Chars_15_00)
        /\ res[p].body.appointment_date = DateObj(<<2025, 8, 21>>)
        /\ appointments[Identity(p)] =
              [patient_id |-> 1, appointment_date |-> <<2025, 8, 21>>,
               appointment_time |-> <<15, 0, 0>>, reason |-> <<"a">>,
               created_at |-> Midnight]

\* C10: a delete of an identity with no live record answers 404 and leaves the
\* store as it was; a delete of a live identity answers 200 and removes that
\* record alone; a fetch or update of an identity with no live record answers
\* 404; an identity the table has handed out and that is not live never becomes
\* live again.
C10_Delete ==
    [][/\ \A p \in Procs :
             /\ pc[p] = "idle" /\ pc'[p] # "idle" /\ IsNumeral(req'[p].id)
             => LET id == CharsToNat(req'[p].id)
                IN /\ req'[p].op = "DELETE /appointments/:id"
                      => IF id \in DOMAIN appointments
                         THEN /\ res'[p].status = 200
                              /\ DOMAIN appointments' = DOMAIN appointments \ {id}
                              /\ \A i \in DOMAIN appointments' :
                                    appointments'[i] = appointments[i]
                              /\ <<patients, nextPatientId, nextAppointmentId>>'
                                    = <<patients, nextPatientId, nextAppointmentId>>
                         ELSE res'[p].status = 404 /\ store' = store
                   /\ /\ req'[p].op \in {"GET /appointments/:id", "PUT /appointments/:id"}
                      /\ id \notin DOMAIN appointments
                      => pc'[p] = "done" /\ res'[p].status = 404
       /\ \A i \in 1..(nextAppointmentId - 1) :
             i \notin DOMAIN appointments => i \notin DOMAIN appointments']_vars

\* C10 witness: a delete of identity 1, handed out earlier and no longer live,
\* has been answered 404 while the later appointment 2 is live.
C10_Witness ==
    \E p \in Procs :
        /\ Answered(p, "DELETE /appointments/:id")
        /\ IsNumeral(req[p].id) /\ Identity(p) = 1
        /\ res[p].status = 404
        /\ nextAppointmentId > 2
        /\ DOMAIN appointments = {2}

\* C11 as claimed: a fetch or an update by identity, of a patient or of an
\* appointment, whose identity is not the numeral of a positive integer is
\* answered 400.
C11_BadIdentityIs400 ==
    \A p \in Procs :
        /\ pc[p] = "done"
        /\ req[p].op \in {"GET /patients/:id", "PUT /patients/:id",
                          "GET /appointments/:id", "PUT /appointments/:id"}
        /\ ~(IsNumeral(req[p].id) /\ Identity(p) > 0)
        => res[p].status = 400

\* C12 as claimed: an appointment request one of whose storage calls has failed
\* is answered with an internal error (500), and has left both tables as they
\* were.
C12_FailureAnswered500 ==
    [][\A p \in Procs :
          /\ pc[p] # "done" /\ pc'[p] = "done"
          /\ res'[p].message = "unhandled rejection"
          => /\ res'[p].status = 500
             /\ patients' = patients /\ appointments' = appointments]_vars

\* The live appointments that reference `patient`.
AppointmentsOf(patient) == {i \in DOMAIN appointments : appointments[i].patient_id = patient}

\* C13 as claimed: a delete of a patient that has live appointments answers
\* 200 and removes the patient, leaving the appointments as they were.
C13_DeleteOrphans ==
    [][\A p \in Procs :
          /\ pc[p] = "idle" /\ pc'[p] = "done"
          /\ req'[p].op = "DELETE /patients/:id"
          /\ IsNumeral(req'[p].id)
          /\ AppointmentsOf(CharsToNat(req'[p].id)) # {}
          => /\ res'[p].status = 200
             /\ CharsToNat(req'[p].id) \notin DOMAIN patients'
             /\ appointments' = appointments]_vars

\* C13 amended: a delete of a patient that has live appointments is refused:
\* it answers 500 and leaves the patient and every appointment as they were; a
\* delete of a live patient that has none answers 200 and removes the patient.
C13_DeleteRefused ==
    [][\A p \in Procs :
          /\ pc[p] = "idle" /\ pc'[p] = "done"
          /\ req'[p].op = "DELETE /patients/:id"
          /\ IsNumeral(req'[p].id)
          /\ CharsToNat(req'[p].id) \in DOMAIN patients
          => IF AppointmentsOf(CharsToNat(req'[p].id)) # {}
             THEN /\ res'[p].status = 500
                  /\ res'[p].message = "Database error"
                  /\ store' = store
             ELSE /\ res'[p].status = 200
                  /\ DOMAIN patients' = DOMAIN patients \ {CharsToNat(req'[p].id)}
                  /\ appointments' = appointments]_vars

\* C13 witness: the delete of a patient that two live appointments reference
\* has been answered 500, and the patient is live.
C13_Witness ==
    \E p \in Procs :
        /\ Answered(p, "DELETE /patients/:id")
        /\ res[p].status = 500
        /\ Identity(p) \in DOMAIN patients
        /\ Cardinality(AppointmentsOf(Identity(p))) = 2

\* C14: no step of an update of appointment X changes a patient record, the
\* next identities, the set of live appointments, an appointment other than
\* X, or X's patient reference and creation timestamp; the 200 response names
\* X's identity and patient reference; neither an update nor a delete of an
\* appointment runs the patient existence check.
C14_UpdateFrame ==
    [][\A p \in Procs :
          /\ req'[p].op = "PUT /appointments/:id" /\ IsNumeral(req'[p].id)
             => LET id == CharsToNat(req'[p].id)
                IN /\ <<patients, nextPatientId, nextAppointmentId>>'
                         = <<patients, nextPatientId, nextAppointmentId>>
                   /\ DOMAIN appointments' = DOMAIN appointments
                   /\ \A i \in DOMAIN appointments \ {id} : appointments'[i] = appointments[i]
                   /\ id \in DOMAIN appointments
                      => /\ appointments'[id].patient_id = appointments[id].patient_id
                         /\ appointments'[id].created_at = appointments[id].created_at
                         /\ pc'[p] = "done" /\ res'[p].status = 200
                            => /\ res'[p].body.id = Num(id)
                               /\ res'[p].body.patient_id = Num(appointments[id].patient_id)
          /\ req'[p].op \in {"PUT /appointments/:id", "DELETE /appointments/:id"}
             => pc'[p] # "POST ensurePatientExists"]_vars

\* C14 witness: an update that changed the date and the reason of an
\* appointment created at the later reading of the clock has been answered 200,
\* while an appointment created at the earlier reading is live.
C14_Witness ==
    \E p \in Procs :
        /\ Answered(p, "PUT /appointments/:id")
        /\ res[p].status = 200
        /\ req[p].AppointmentDate = Str(Chars_2025_08_21) /\ req[p].Reason = Str(Chars_b)
        /\ Identity(p) \in DOMAIN appointments
        /\ appointments[Identity(p)] =
              [patient_id |-> SeedPatientId, appointment_date |-> <<2025, 8, 21>>,
               appointment_time |-> <<15, 0, 0>>, reason |-> <<"b">>,
               created_at |-> Midnight + 1]
        /\ \E i \in DOMAIN appointments : appointments[i].created_at = Midnight

\* C15 as claimed: with more requests in flight than the pool has connections,
\* at most connectionLimit queries hold a connection, a request that finds none
\* free waits in the queue and is not refused, and every request receives its
\* response: no handler ends without having answered.
C15_PoolServesAll ==
    /\ Cardinality(inUse) <= connectionLimit
    /\ \A c \in Clients :
          /\ pc[c] = "pool queued" => \E i \in DOMAIN queue : queue[i] = c
          /\ pc[c] = "done" => res[c].status # 0

\* C16 as claimed: the validators return false for every value that is not a
\* string, and never throw: a create whose date is not a string is answered 400
\* with the date's message, and one whose date is well-formed and whose time is
\* not a string is answered 400 with the time's message.
C16_NonStringsRejected ==
    \A p \in Procs :
        /\ Answered(p, "POST /appointments")
        /\ PositiveInteger(req[p].PatientId)
        => /\ req[p].AppointmentDate.t # "string"
              => /\ res[p].status = 400
                 /\ res[p].message = "AppointmentDate must be 'YYYY-MM-DD'"
           /\ req[p].AppointmentDate \in WellFormedDates /\ req[p].AppointmentTime.t # "string"
              => /\ res[p].status = 400
                 /\ res[p].message = "AppointmentTime must be 'HH:MM' (24h)"

\* The date and time the record an update has fetched held when it was read.
Fetched(p) == [appointment_date |-> appt[p].appointment_date.d,
               appointment_time |-> SqlTime(appt[p].appointment_time)]
\* The live appointments, other than the one slot p updates, of the same
\* patient at the update's resulting (date, time).
OtherHolders(p) ==
    Holders(appt[p].patient_id.n, ResultingDate(p, Fetched(p)), ResultingTime(p, Fetched(p)))
        \ {Identity(p)}

\* C17 as claimed: in every reachable store state, the step at which an update
\* decides answers conflict exactly when a live appointment other than the one
\* being updated, of the same patient, holds the resulting (date, time).
C17_DecidesAsReference ==
    [][\A p \in Procs :
          pc[p] = "PUT isSlotTaken" /\ pc'[p] # "PUT isSlotTaken"
          => (pc'[p] = "done" /\ res'[p].status = 409 <=> OtherHolders(p) # {})]_vars

\* C18: no step of a create or an update of an appointment that comes before
\* its last changes the store, and the last step leaves the store (both tables
\* and both next identities) as it was when it answers 400, 404 or 409.
C18_ErrorsLeaveStore ==
    [][\A p \in Procs :
          /\ req'[p].op \in {"POST /appointments", "PUT /appointments/:id"}
          /\ pc[p] # "done"
          => /\ pc'[p] # "done" => store' = store
             /\ pc'[p] = "done" /\ res'[p].status \in {400, 404, 409} => store' = store]_vars

\* C18 witness: a create has been answered 409 by the one live appointment,
\* and the next identity is the one after it.
C18_Witness ==
    \E p \in Procs :
        /\ Answered(p, "POST /appointments")
        /\ res[p].status = 409
        /\ DOMAIN appointments = {1}
        /\ nextAppointmentId = 2

\* C19: in every reachable state, requests interleaved, the patient reference
\* of every live appointment is the identity of a live patient.
C19_ReferencesResolve ==
    \A i \in DOMAIN appointments : appointments[i].patient_id \in DOMAIN patients

\* C19 witness: a delete of the patient has been answered 200 between the
\* existence check and the insert of a create for that patient, and the create
\* has ended without its row.
C19_Witness ==
    \E p, q \in Procs :
        /\ Answered(p, "POST /appointments")
        /\ res[p].status \notin {201, 400, 404, 409}
        /\ req[p].PatientId.n \notin DOMAIN patients
        /\ Answered(q, "DELETE /patients/:id")
        /\ res[q].status = 200
        /\ Identity(q) = req[p].PatientId.n

\* C20 as claimed: when the write of an update completes and the update
\* answers 200, the appointment is live and holds the date, the time and the
\* reason the response returns.
C20_UpdatedIsLive ==
    [][\A p \in Procs :
          pc[p] = "PUT update" /\ pc'[p] = "done" /\ res'[p].status = 200
          => /\ Identity(p) \in DOMAIN appointments'
             /\ appointments'[Identity(p)].appointment_date = ResultingDate(p, Fetched(p))
             /\ appointments'[Identity(p)].appointment_time = ResultingTime(p, Fetched(p))
             /\ Str(appointments'[Identity(p)].reason) = res'[p].body.reason]_vars

\* The update in slot p submits a date or a time.
Moves(p) == req[p].AppointmentDate # Undefined \/ req[p].AppointmentTime # Undefined

\* C21 as claimed: once an update that moved an appointment and a create or
\* another update, interleaved with it, have both finished with success, no
\* other live appointment of the same patient holds the slot of the moved
\* appointment.
C21_NoRacedDoubleBooking ==
    \A p, q \in Procs :
        /\ p # q
        /\ Answered(p, "PUT /appointments/:id") /\ res[p].status = 200 /\ Moves(p)
        /\ pc[q] = "done" /\ res[q].status \in {200, 201}
        /\ req[q].op \in {"POST /appointments", "PUT /appointments/:id"}
        /\ Identity(p) \in DOMAIN appointments
        => LET row == appointments[Identity(p)]
           IN Holders(row.patient_id, row.appointment_date, row.appointment_time)
                  = {Identity(p)}

\* C21 amended: an update that moves an appointment goes on to its write only
\* when, at its slot check, no live appointment of the same patient holds the
\* resulting (date, time); the write itself then moves the appointment and
\* answers 200 whatever holds the slot by then.
C21_SlotFreeAtCheck ==
    [][\A p \in Procs :
          /\ pc[p] = "PUT isSlotTaken" /\ pc'[p] = "PUT update" /\ Moves(p)
             => Holders(appt[p].patient_id.n, ResultingDate(p, Fetched(p)),
                        ResultingTime(p, Fetched(p))) = {}
          /\ pc[p] = "PUT update" /\ pc'[p] = "done" /\ Identity(p) \in DOMAIN appointments
             => /\ res'[p].status = 200
                /\ appointments'[Identity(p)].appointment_date = ResultingDate(p, Fetched(p))
                /\ appointments'[Identity(p)].appointment_time
                       = ResultingTime(p, Fetched(p))]_vars

\* C21 witness: an update that moved appointment 1 and a create, interleaved,
\* have both finished with success, and the appointment the create made holds
\* the slot appointment 1 was moved into.
C21_Witness ==
    \E p, q \in Procs :
        /\ Answered(p, "PUT /appointments/:id") /\ res[p].status = 200 /\ Moves(p)
        /\ Answered(q, "POST /appointments") /\ res[q].status = 201
        /\ Identity(p) \in DOMAIN appointments
        /\ res[q].body.id.n \in DOMAIN appointments
        /\ res[q].body.id.n # Identity(p)
        /\ appointments[Identity(p)].appointment_time = TimeNamed(req[p].AppointmentTime)
        /\ {Identity(p), res[q].body.id.n} \subseteq
               Holders(appointments[Identity(p)].patient_id,
                       appointments[Identity(p)].appointment_date,
                       appointments[Identity(p)].appointment_time)
====
